---- MODULE Spec2Model ----
(***************************************************************************)
(* Trace2Config-Synthesis.py: synthesize_variant compiles a feature model  *)
(* into propositional constraints, adds the policy, preset, latency and    *)
(* empirical constraints and asks a solver for one satisfying assignment.  *)
(*                                                                         *)
(* Milliseconds are kept in tenths (1.2 ms is 12): every cost constant of  *)
(* build_latency_model is a multiple of 0.1, so "cost <= B" for a real B   *)
(* is "cost <= floor(10 B)" in tenths.                                     *)
(*                                                                         *)
(* A z3 term is a record: Var(n) is Bool(n), Const(b) is BoolVal(b),       *)
(* Num(v) a numeral and Ite(c, t, e) is If(c, t, e).  A constraint is a    *)
(* record whose op names the z3 constructor the code applies.              *)
(***************************************************************************)
EXTENDS Integers, Sequences, FiniteSets

VARIABLES pc, fm, variant_name, bounds, feature_vars, fm_constraints, vsel,
          latency_constraints, req_constraints, variant_constraints,
          empirical_constraints, result, calls, prev

vars == <<pc, fm, variant_name, bounds, feature_vars, fm_constraints, vsel,
          latency_constraints, req_constraints, variant_constraints,
          empirical_constraints, result, calls, prev>>

-----------------------------------------------------------------------------
(* Bounds of the model *)

\* longest list of children of a generated alternative group
MaxGroupLen == 3
\* most requires plus excludes declarations of a generated document
MaxEdges == 2
\* most calls of synthesize_variant in one behaviour
MaxCalls == 2

-----------------------------------------------------------------------------
(* z3 terms *)

Var(n) == [k |-> "var", n |-> n]
Const(b) == [k |-> "const", b |-> b]
Num(v) == [k |-> "num", v |-> v]
Ite(c, t, e) == [k |-> "ite", c |-> c, t |-> t, e |-> e]

\* the value of a boolean term under the feature assignment A
EvalBool(t, A) == IF t.k = "var" THEN A[t.n] ELSE t.b

RECURSIVE EvalNum(_, _)
EvalNum(e, A) ==
    IF e.k = "num" THEN e.v
    ELSE IF EvalBool(e.c, A) THEN EvalNum(e.t, A) ELSE EvalNum(e.e, A)

RECURSIVE SumSeq(_)
SumSeq(s) == IF s = <<>> THEN 0 ELSE Head(s) + SumSeq(Tail(s))

\* Sum(terms) of numeric terms
EvalSum(terms, A) == SumSeq([i \in 1..Len(terms) |-> EvalNum(terms[i], A)])

\* the numerals a numeric term can evaluate to
RECURSIVE Leaves(_)
Leaves(e) == IF e.k = "num" THEN {e.v} ELSE Leaves(e.t) \cup Leaves(e.e)

RECURSIVE SumSets(_)
SumSets(s) ==
    IF s = <<>> THEN {0}
    ELSE {x + y : x \in Head(s), y \in SumSets(Tail(s))}

-----------------------------------------------------------------------------
(* The input artifacts *)

\* FM.xml after the parse: named, the name attributes of the elements
\* .//*[@name]; alts, for each .//alt its ./feature[@name] children's names in
\* document order; requires and excludes, the (a, b) attributes of each
\* .//requires and .//excludes element.
Doc(named, alts, requires, excludes) ==
    [named |-> named, alts |-> alts, requires |-> requires, excludes |-> excludes]

RECURSIVE SeqsUpTo(_, _)
SeqsUpTo(S, n) ==
    IF n = 0 THEN {<<>>}
    ELSE LET shorter == SeqsUpTo(S, n - 1)
         IN  shorter \cup {Append(s, x) : s \in {t \in shorter : Len(t) = n - 1}, x \in S}

Range(s) == {s[i] : i \in 1..Len(s)}

ChildNames(alts) == UNION {Range(alts[i]) : i \in 1..Len(alts)}

ScenarioAlts == << <<"MAC_32", "MAC_64", "MAC_128">>, <<"AES_128", "AES_256">> >>

GroupNames == {"MAC_32", "MAC_64"}

\* documents that vary the alternative groups: one group of 0..MaxGroupLen
\* children, a name possibly listed more than once
AltDocs ==
    {Doc(Range(g) \cup extra, <<g>>, <<>>, <<>>) :
        g \in SeqsUpTo(GroupNames, MaxGroupLen),
        extra \in {{}, {"SecOC_Protection", "Fresh_Counter", "AES_128"}}}

\* "Ghost" is a name no element declares
RequiresPairs == {<<"SecOC_Protection", "Fresh_Counter">>,
                  <<"SecOC_Protection", "Ghost">>}

ExcludesPairs == {<<"Fresh_Counter", "AES_128">>,
                  <<"Fresh_Counter", "Ghost">>}

EdgeLists ==
    {rx \in SeqsUpTo(RequiresPairs, MaxEdges) \X SeqsUpTo(ExcludesPairs, MaxEdges) :
        Len(rx[1]) + Len(rx[2]) <= MaxEdges}

\* documents that vary the requires and excludes declarations
EdgeDocs ==
    {Doc(b.named \cup ChildNames(b.alts), b.alts, rx[1], rx[2]) :
        b \in {[named |-> {"SecOC_Protection", "Fresh_Counter"}, alts |-> ScenarioAlts],
               [named |-> {"SecOC_Protection", "Fresh_Counter", "CAN", "AES_128"},
                alts |-> <<>>],
               [named |-> {"Fresh_Counter", "CAN_FD", "AES_256"}, alts |-> <<>>]},
        rx \in EdgeLists}

Docs == AltDocs \cup EdgeDocs

VariantNames == {"V1", "V2", "V3", "V99"}

\* Simulink_CAN_Logs.csv: the minimum of inter_arrival_ms (4.9 ms, 5.0 ms)
D1Values == {49, 50}
\* Simulink_HIL_Latency.csv: the maximum of latency_ms
D2Values == {35, 60}
\* Simulink_Variant_Timing.csv: the maximum of latency_ms of one variant
D3Values == {10, 27, 28, 30, 60}

-----------------------------------------------------------------------------
(* derive_empirical_bounds *)

\* The EmpiricalBounds records the CSV files can give.  synthesize_variant
\* reads d1_min_interarrival_ms, d2_max_auth_latency_ms and the requested
\* variant's entry of d3_max_latency_by_variant only, so the other fields and
\* the other variants' entries are left out.
EmpiricalBounds(v) ==
    [d1_min_interarrival_ms : D1Values,
     d2_max_auth_latency_ms : D2Values,
     d3_max_latency_by_variant :
        UNION {[D -> D3Values] : D \in {{}, {v}}}]

NoBounds == [d1_min_interarrival_ms |-> 0, d2_max_auth_latency_ms |-> 0,
             d3_max_latency_by_variant |-> <<>>]

-----------------------------------------------------------------------------
(* compile_feature_model *)

\* feature_names: the distinct name attributes
feature_names(doc) == doc.named

\* {name: Bool(name) for name in sorted(feature_names)}
FeatureVars(doc) == [n \in feature_names(doc) |-> Var(n)]

\* children = [feature_vars[c.get("name")] for c in alt.xpath("./feature[@name]")]
Children(fv, group) == [i \in 1..Len(group) |-> fv[group[i]]]

\* the constraints of one alt element
AltConstraints(children) ==
    IF children # <<>>
    THEN << [op |-> "Or", args |-> children],
            [op |-> "SumEq1", args |-> children] >>
    ELSE <<>>

Resolves(fv, a, b) == a \in DOMAIN fv /\ b \in DOMAIN fv

\* the implication built the wrong way round
RequiresConstraints_flipped(fv, a, b) ==
    IF Resolves(fv, a, b)
    THEN << [op |-> "Implies", args |-> <<fv[b], fv[a]>>] >>
    ELSE <<>>

\* the constraints of one requires element
RequiresConstraints(fv, a, b) ==
    IF Resolves(fv, a, b)
    THEN << [op |-> "Implies", args |-> <<fv[a], fv[b]>>] >>
    ELSE <<>>

\* an unknown b read as a feature that is never selected, instead of skipped
ExcludesConstraints_unknown_false(fv, a, b) ==
    IF Resolves(fv, a, b)
    THEN << [op |-> "NotAnd", args |-> <<fv[a], fv[b]>>] >>
    ELSE IF a \in DOMAIN fv
         THEN << [op |-> "NotAnd", args |-> <<fv[a], Const(TRUE)>>] >>
         ELSE <<>>

\* the constraints of one excludes element
ExcludesConstraints(fv, a, b) ==
    IF Resolves(fv, a, b)
    THEN << [op |-> "NotAnd", args |-> <<fv[a], fv[b]>>] >>
    ELSE <<>>

RECURSIVE AltLoop(_, _)
AltLoop(fv, alts) ==
    IF alts = <<>> THEN <<>>
    ELSE AltConstraints(Children(fv, Head(alts))) \o AltLoop(fv, Tail(alts))

RECURSIVE RequiresLoop(_, _)
RequiresLoop(fv, reqs) ==
    IF reqs = <<>> THEN <<>>
    ELSE RequiresConstraints(fv, Head(reqs)[1], Head(reqs)[2])
            \o RequiresLoop(fv, Tail(reqs))

RECURSIVE ExcludesLoop(_, _)
ExcludesLoop(fv, excs) ==
    IF excs = <<>> THEN <<>>
    ELSE ExcludesConstraints(fv, Head(excs)[1], Head(excs)[2])
            \o ExcludesLoop(fv, Tail(excs))

\* fm_constraints as compile_feature_model returns it
FmConstraints(doc) ==
    LET fv == FeatureVars(doc)
    IN  AltLoop(fv, doc.alts) \o RequiresLoop(fv, doc.requires)
            \o ExcludesLoop(fv, doc.excludes)

-----------------------------------------------------------------------------
(* load_variant *)

\* an unknown identifier falling through to the first preset
load_variant_fallthrough(v) ==
    IF v = "V2" THEN << <<"CAN_FD", TRUE>>, <<"AES_256", TRUE>> >>
    ELSE IF v = "V3" THEN << <<"SecOC_Protection", TRUE>> >>
    ELSE << <<"CAN", TRUE>>, <<"AES_128", TRUE>> >>

\* a dict is the sequence of its (key, value) items in insertion order
load_variant(v) ==
    IF v = "V1" THEN << <<"CAN", TRUE>>, <<"AES_128", TRUE>> >>
    ELSE IF v = "V2" THEN << <<"CAN_FD", TRUE>>, <<"AES_256", TRUE>> >>
    ELSE IF v = "V3" THEN << <<"SecOC_Protection", TRUE>> >>
    ELSE <<>>

-----------------------------------------------------------------------------
(* build_latency_model *)

\* feature_vars.get(name, BoolVal(False))
Get(fv, n) == IF n \in DOMAIN fv THEN fv[n] ELSE Const(FALSE)

\* 1.2 mistyped as 0.2
mac_cost_typo(MAC_32, MAC_64) == Ite(MAC_32, Num(2), Ite(MAC_64, Num(22), Num(32)))

mac_cost(MAC_32, MAC_64) == Ite(MAC_32, Num(12), Ite(MAC_64, Num(22), Num(32)))
aes_cost(AES_128) == Ite(AES_128, Num(9), Num(16))
fr_cost(Fresh_Counter) == Ite(Fresh_Counter, Num(7), Num(11))

\* [latency_ms == mac_cost + aes_cost + fr_cost]
build_latency_model(fv) ==
    << [op |-> "EqSum", v |-> "latency_ms",
        terms |-> << mac_cost(Get(fv, "MAC_32"), Get(fv, "MAC_64")),
                     aes_cost(Get(fv, "AES_128")),
                     fr_cost(Get(fv, "Fresh_Counter")) >>] >>

-----------------------------------------------------------------------------
(* synthesize_variant: the constraints it composes *)

\* the policy constraint left out
ReqConstraints_none(fv) == <<>>

ReqConstraints(fv) ==
    IF "SecOC_Protection" \in DOMAIN fv
    THEN << [op |-> "Bool", args |-> <<fv["SecOC_Protection"]>>] >>
    ELSE <<>>

\* the preset value negated
PresetConstraint_negated(fv, fname, val) ==
    [op |-> "Eq", args |-> <<fv[fname], Const(~val)>>]

\* feature_vars[fname] == BoolVal(val)
PresetConstraint(fv, fname, val) ==
    [op |-> "Eq", args |-> <<fv[fname], Const(val)>>]

\* for fname, val in vsel.items(): if fname in feature_vars: ...
RECURSIVE VariantLoop(_, _)
VariantLoop(fv, items) ==
    IF items = <<>> THEN <<>>
    ELSE (IF Head(items)[1] \in DOMAIN fv
          THEN <<PresetConstraint(fv, Head(items)[1], Head(items)[2])>>
          ELSE <<>>)
         \o VariantLoop(fv, Tail(items))

Min(a, b) == IF a <= b THEN a ELSE b

\* the variant's own maximum ignored
LatencyBound_global(bnd, v) == bnd.d2_max_auth_latency_ms

\* min(d2_max_auth_latency_ms, d3_max_latency_by_variant.get(variant_name, d2...))
LatencyBound(bnd, v) ==
    Min(bnd.d2_max_auth_latency_ms,
        IF v \in DOMAIN bnd.d3_max_latency_by_variant
        THEN bnd.d3_max_latency_by_variant[v]
        ELSE bnd.d2_max_auth_latency_ms)

\* int(x) of a non-negative float x held in tenths
IntOf(tenths) == tenths \div 10

\* the latency inequality written the wrong way round
EmpiricalConstraints_reversed(bnd, v) ==
    << [op |-> "Ge", v |-> "freshness_window_ms",
        c |-> IntOf(bnd.d1_min_interarrival_ms)],
       [op |-> "Ge", v |-> "latency_ms", c |-> LatencyBound(bnd, v)] >>

EmpiricalConstraints(bnd, v) ==
    << [op |-> "Ge", v |-> "freshness_window_ms",
        c |-> IntOf(bnd.d1_min_interarrival_ms)],
       [op |-> "Le", v |-> "latency_ms", c |-> LatencyBound(bnd, v)] >>

-----------------------------------------------------------------------------
(* The solver *)

RECURSIVE CountTrue(_, _)
CountTrue(args, A) ==
    IF args = <<>> THEN 0
    ELSE (IF EvalBool(Head(args), A) THEN 1 ELSE 0) + CountTrue(Tail(args), A)

\* the truth of one constraint under the interpretation I: I.b the features,
\* I.latency_ms in tenths, I.freshness_window_ms an integer
Holds(c, I) ==
    CASE c.op = "Or" -> \E i \in 1..Len(c.args) : EvalBool(c.args[i], I.b)
      [] c.op = "SumEq1" -> CountTrue(c.args, I.b) = 1
      [] c.op = "Implies" -> EvalBool(c.args[1], I.b) => EvalBool(c.args[2], I.b)
      [] c.op = "NotAnd" -> ~(EvalBool(c.args[1], I.b) /\ EvalBool(c.args[2], I.b))
      [] c.op = "Bool" -> EvalBool(c.args[1], I.b)
      [] c.op = "Eq" -> EvalBool(c.args[1], I.b) = EvalBool(c.args[2], I.b)
      [] c.op = "EqSum" -> I[c.v] = EvalSum(c.terms, I.b)
      [] c.op = "Ge" -> I[c.v] >= c.c
      [] c.op = "Le" -> I[c.v] <= c.c

IsPropositional(c) == c.op \in {"Or", "SumEq1", "Implies", "NotAnd", "Bool", "Eq"}

Select(cs, v) == {i \in 1..Len(cs) : ~IsPropositional(cs[i]) /\ cs[i].v = v}

\* the values latency_ms can take in a model: a sum the equalities on it allow
LatencyDomain(cs) ==
    UNION {SumSets([j \in 1..Len(cs[i].terms) |-> Leaves(cs[i].terms[j])]) :
              i \in {j \in Select(cs, "latency_ms") : cs[j].op = "EqSum"}}

\* the values freshness_window_ms needs to take: the least one its lower
\* bounds allow, or one more (the integers have no upper end)
FreshnessDomain(cs) ==
    LET lows == {cs[i].c : i \in Select(cs, "freshness_window_ms")} \cup {0}
        top == CHOOSE x \in lows : \A y \in lows : y <= x
    IN  0..(top + 1)

\* the feature assignments A that some model of the constraints cs extends:
\* no constraint mentions both latency_ms and freshness_window_ms, so each is
\* chosen on its own
Models(cs, fv) ==
    {A \in [DOMAIN fv -> BOOLEAN] :
        /\ \A i \in 1..Len(cs) :
              IsPropositional(cs[i]) =>
                  Holds(cs[i], [b |-> A, latency_ms |-> 0, freshness_window_ms |-> 0])
        /\ \E lat \in LatencyDomain(cs) : \A i \in Select(cs, "latency_ms") :
              Holds(cs[i], [b |-> A, latency_ms |-> lat, freshness_window_ms |-> 0])
        /\ \E fw \in FreshnessDomain(cs) : \A i \in Select(cs, "freshness_window_ms") :
              Holds(cs[i], [b |-> A, latency_ms |-> 0, freshness_window_ms |-> fw])}

\* s.add(fm_constraints + req_constraints + variant_constraints +
\*       latency_constraints + empirical_constraints)
Added == fm_constraints \o req_constraints \o variant_constraints
            \o latency_constraints \o empirical_constraints

None == [kind |-> "None"]
Pending == [kind |-> "pending"]
\* only the selected features returned
Dict_selected(fv, A) ==
    [kind |-> "dict", map |-> [n \in {m \in DOMAIN fv : EvalBool(fv[m], A)} |-> TRUE]]

\* {k: m.evaluate(v, model_completion=True) for k, v in feature_vars.items()}
Dict(fv, A) == [kind |-> "dict", map |-> [n \in DOMAIN fv |-> EvalBool(fv[n], A)]]

-----------------------------------------------------------------------------
(* The state machine: one call of synthesize_variant, line by line *)

NoPrev == [feasible |-> FALSE, bound |-> 0, d1 |-> 0]

Init ==
    /\ pc = "start"
    /\ fm \in Docs
    /\ variant_name \in VariantNames
    /\ bounds = NoBounds
    /\ feature_vars = <<>>
    /\ fm_constraints = <<>>
    /\ vsel = <<>>
    /\ latency_constraints = <<>>
    /\ req_constraints = <<>>
    /\ variant_constraints = <<>>
    /\ empirical_constraints = <<>>
    /\ result = Pending
    /\ calls = 1
    /\ prev = NoPrev

\* bounds = derive_empirical_bounds()
DeriveBounds ==
    /\ pc = "start"
    /\ bounds' \in EmpiricalBounds(variant_name)
    /\ pc' = "compile"
    /\ UNCHANGED <<fm, variant_name, feature_vars, fm_constraints, vsel,
                   latency_constraints, req_constraints, variant_constraints,
                   empirical_constraints, result, calls, prev>>

\* feature_vars, fm_constraints = compile_feature_model(FM_XML_PATH)
CompileFeatureModel ==
    /\ pc = "compile"
    /\ feature_vars' = FeatureVars(fm)
    /\ fm_constraints' = FmConstraints(fm)
    /\ pc' = "load"
    /\ UNCHANGED <<fm, variant_name, bounds, vsel, latency_constraints,
                   req_constraints, variant_constraints, empirical_constraints,
                   result, calls, prev>>

\* vsel = load_variant(variant_name)
LoadVariant ==
    /\ pc = "load"
    /\ vsel' = load_variant(variant_name)
    /\ pc' = "latency"
    /\ UNCHANGED <<fm, variant_name, bounds, feature_vars, fm_constraints,
                   latency_constraints, req_constraints, variant_constraints,
                   empirical_constraints, result, calls, prev>>

\* latency_ms, latency_constraints = build_latency_model(bounds, feature_vars)
BuildLatencyModel ==
    /\ pc = "latency"
    /\ latency_constraints' = build_latency_model(feature_vars)
    /\ pc' = "compose"
    /\ UNCHANGED <<fm, variant_name, bounds, feature_vars, fm_constraints, vsel,
                   req_constraints, variant_constraints, empirical_constraints,
                   result, calls, prev>>

\* req_constraints, variant_constraints and empirical_constraints
Compose ==
    /\ pc = "compose"
    /\ req_constraints' = ReqConstraints(feature_vars)
    /\ variant_constraints' = VariantLoop(feature_vars, vsel)
    /\ empirical_constraints' = EmpiricalConstraints(bounds, variant_name)
    /\ pc' = "solve"
    /\ UNCHANGED <<fm, variant_name, bounds, feature_vars, fm_constraints, vsel,
                   latency_constraints, result, calls, prev>>

\* s.check() == sat: the solver decides the conjunction and gives one of its
\* models, any of them
SolveSat ==
    /\ pc = "solve"
    /\ \E A \in Models(Added, feature_vars) : result' = Dict(feature_vars, A)
    /\ pc' = "done"
    /\ UNCHANGED <<fm, variant_name, bounds, feature_vars, fm_constraints, vsel,
                   latency_constraints, req_constraints, variant_constraints,
                   empirical_constraints, calls, prev>>

\* else: return None
SolveUnsat ==
    /\ pc = "solve"
    /\ Models(Added, feature_vars) = {}
    /\ result' = None
    /\ pc' = "done"
    /\ UNCHANGED <<fm, variant_name, bounds, feature_vars, fm_constraints, vsel,
                   latency_constraints, req_constraints, variant_constraints,
                   empirical_constraints, calls, prev>>

\* the caller calls synthesize_variant again for the same variant; nothing of
\* the first call survives but what the caller remembers of it (prev)
CallAgain ==
    /\ pc = "done"
    /\ calls < MaxCalls
    /\ calls' = calls + 1
    /\ prev' = [feasible |-> result.kind = "dict",
                bound |-> LatencyBound(bounds, variant_name),
                d1 |-> bounds.d1_min_interarrival_ms]
    /\ pc' = "start"
    /\ bounds' = NoBounds
    /\ feature_vars' = <<>>
    /\ fm_constraints' = <<>>
    /\ vsel' = <<>>
    /\ latency_constraints' = <<>>
    /\ req_constraints' = <<>>
    /\ variant_constraints' = <<>>
    /\ empirical_constraints' = <<>>
    /\ result' = Pending
    /\ UNCHANGED <<fm, variant_name>>

Next ==
    \/ DeriveBounds
    \/ CompileFeatureModel
    \/ LoadVariant
    \/ BuildLatencyModel
    \/ Compose
    \/ SolveSat
    \/ SolveUnsat

Spec == Init /\ [][Next]_vars

\* repeated calls, on the documents of the scenario and of one alternative group
CallDocs ==
    {d \in Docs : \/ /\ d.alts = ScenarioAlts
                     /\ d.excludes = <<>>
                     /\ d.requires \in {<<>>, << <<"SecOC_Protection", "Fresh_Counter">> >>}
                  \/ d.alts = << <<"MAC_32">> >>}

InitCalls == Init /\ fm \in CallDocs

NextCalls ==
    \/ DeriveBounds
    \/ CompileFeatureModel
    \/ LoadVariant
    \/ BuildLatencyModel
    \/ Compose
    \/ SolveSat
    \/ SolveUnsat
    \/ CallAgain

SpecCalls == InitCalls /\ [][NextCalls]_vars

-----------------------------------------------------------------------------
(* The claims *)

\* the feature assignments over the declared names
Assignments == [fm.named -> BOOLEAN]

\* a propositional constraint under the feature assignment A
HoldsUnder(c, A) == Holds(c, [b |-> A, latency_ms |-> 0, freshness_window_ms |-> 0])

AllHold(cs, A) == \A i \in 1..Len(cs) : HoldsUnder(cs[i], A)

Selected(A, n) == n \in DOMAIN A /\ A[n]

ExactlyOne(S, A) == Cardinality({n \in S : Selected(A, n)}) = 1

Compiled == pc \in {"load", "latency", "compose", "solve", "done"}
Composed == pc \in {"solve", "done"}
Returned == pc = "done" /\ result.kind = "dict"

\* cost(A) as the claims state it, in tenths of a millisecond
ClaimCost(A) ==
    (IF Selected(A, "MAC_32") THEN 12 ELSE IF Selected(A, "MAC_64") THEN 22 ELSE 32)
    + (IF Selected(A, "AES_128") THEN 9 ELSE 16)
    + (IF Selected(A, "Fresh_Counter") THEN 7 ELSE 11)

\* B as the claims state it
ClaimBound ==
    LET g == bounds.d2_max_auth_latency_ms
        d3 == bounds.d3_max_latency_by_variant
        own == IF variant_name \in DOMAIN d3 THEN d3[variant_name] ELSE g
    IN  IF g <= own THEN g ELSE own

\* the two constraints compile_feature_model emitted for the g-th alt element
EmittedFor(g) ==
    LET at == 2 * Cardinality({h \in 1..(g - 1) : fm.alts[h] # <<>>})
    IN  <<fm_constraints[at + 1], fm_constraints[at + 2]>>

\* C1: for every alternative group with at least one child, an assignment
\* satisfies the constraints emitted for the group if and only if exactly one
\* member of the set of its distinct children is true, also when a child is
\* listed more than once; so every returned assignment has exactly one true
\* member in every group.
C1_AltGroupExactlyOne ==
    /\ Compiled =>
          \A g \in 1..Len(fm.alts) : fm.alts[g] # <<>> =>
              \A A \in Assignments :
                  AllHold(EmittedFor(g), A) <=> ExactlyOne(Range(fm.alts[g]), A)
    /\ Returned =>
          \A g \in 1..Len(fm.alts) : fm.alts[g] # <<>> =>
              ExactlyOne(Range(fm.alts[g]), result.map)

BothDeclared(e) == e[1] \in fm.named /\ e[2] \in fm.named

\* C2: in every returned assignment, a requires(a, b) of two declared features
\* has a => b, and an excludes(a, b) of two declared features has not both.
C2_RequiresExcludesHold ==
    Returned =>
        /\ \A i \in 1..Len(fm.requires) : BothDeclared(fm.requires[i]) =>
              (result.map[fm.requires[i][1]] => result.map[fm.requires[i][2]])
        /\ \A i \in 1..Len(fm.excludes) : BothDeclared(fm.excludes[i]) =>
              ~(result.map[fm.excludes[i][1]] /\ result.map[fm.excludes[i][2]])

C2_Witness ==
    /\ Returned
    /\ \E i \in 1..Len(fm.requires) :
          BothDeclared(fm.requires[i]) /\ result.map[fm.requires[i][1]]
    /\ \E i \in 1..Len(fm.excludes) :
          BothDeclared(fm.excludes[i]) /\ result.map[fm.excludes[i][1]]

\* C3: if SecOC_Protection is declared, it is true in every returned
\* assignment, for every variant identifier.
C3_SecOCForced ==
    (Returned /\ "SecOC_Protection" \in fm.named) => result.map["SecOC_Protection"]

C3_Witness ==
    /\ Returned
    /\ "SecOC_Protection" \in fm.named
    /\ variant_name = "V1"
    /\ fm.requires = <<>>

\* C4: a returned assignment maps every declared feature F of a preset pair
\* (F, V) to V; a preset pair of an undeclared name adds no constraint.
C4_PresetHonoured ==
    /\ Returned =>
          \A i \in 1..Len(vsel) : vsel[i][1] \in fm.named =>
              result.map[vsel[i][1]] = vsel[i][2]
    /\ Composed =>
          Len(variant_constraints)
              = Cardinality({i \in 1..Len(vsel) : vsel[i][1] \in fm.named})

C4_Witness ==
    /\ Returned
    /\ variant_name = "V1"
    /\ "AES_128" \in fm.named
    /\ "CAN" \notin fm.named
    /\ Len(variant_constraints) = 1

\* the structural, preset and policy constraints of the call
StructuralPresetPolicy == fm_constraints \o req_constraints \o variant_constraints

ScenarioDoc ==
    Doc(ChildNames(ScenarioAlts) \cup {"SecOC_Protection", "Fresh_Counter"},
        ScenarioAlts, << <<"SecOC_Protection", "Fresh_Counter">> >>, <<>>)

InScenario ==
    /\ fm = ScenarioDoc
    /\ variant_name = "V3"
    /\ bounds.d2_max_auth_latency_ms = 35
    /\ bounds.d3_max_latency_by_variant = [v \in {"V3"} |-> 30]

\* C5: whenever some assignment satisfies the structural, preset and policy
\* constraints with cost <= B the call returns an assignment, every returned
\* assignment has cost <= B, and the scenario of V3 with global maximum 3.5 and
\* V3 maximum 3.0 returns SecOC_Protection, Fresh_Counter, one MAC and one AES
\* feature at a cost of at most 3.0.
C5_CostWithinBound ==
    pc = "done" =>
        /\ (\E A \in Assignments :
              AllHold(StructuralPresetPolicy, A) /\ ClaimCost(A) <= ClaimBound)
              => result.kind = "dict"
        /\ result.kind = "dict" => ClaimCost(result.map) <= ClaimBound
        /\ InScenario =>
              /\ result.kind = "dict"
              /\ result.map["SecOC_Protection"]
              /\ result.map["Fresh_Counter"]
              /\ ExactlyOne({"MAC_32", "MAC_64", "MAC_128"}, result.map)
              /\ ExactlyOne({"AES_128", "AES_256"}, result.map)
              /\ ClaimCost(result.map) <= 30

C5_Witness == Returned /\ InScenario

\* C6: the cost expression is at least 2.8 under every assignment, so a call
\* whose bound B is below 2.8 returns the infeasible signal.
C6_CheapestIs28 ==
    /\ pc \in {"compose", "solve", "done"} =>
          \A A \in Assignments : EvalSum(latency_constraints[1].terms, A) >= 28
    /\ (pc = "done" /\ ClaimBound < 28) => result = None

C6_Witness ==
    /\ pc = "done"
    /\ {"MAC_32", "AES_128", "Fresh_Counter"} \subseteq fm.named
    /\ variant_name \in DOMAIN bounds.d3_max_latency_by_variant
    /\ bounds.d3_max_latency_by_variant[variant_name] = 10
    /\ result = None

\* C7: a call that follows a feasible call for the same model and variant,
\* with the same minimum inter-arrival bound and a greater bound B, returns an
\* assignment.
C7_MonotonicRelaxation ==
    (/\ pc = "done"
     /\ calls > 1
     /\ prev.feasible
     /\ prev.d1 = bounds.d1_min_interarrival_ms
     /\ ClaimBound > prev.bound) => result.kind = "dict"

C7_Witness ==
    /\ Returned
    /\ calls > 1
    /\ prev.feasible
    /\ prev.d1 = bounds.d1_min_interarrival_ms
    /\ prev.bound = 28
    /\ ClaimBound = 35

\* C8: for an identifier outside the catalog load_variant returns the empty
\* mapping, no preset constraint is added, and the assignments that satisfy
\* the request are those that satisfy the structural, policy, cost and
\* empirical constraints alone.
C8_UnknownVariantUnconstrained ==
    variant_name \notin {"V1", "V2", "V3"} =>
        /\ pc \in {"latency", "compose", "solve", "done"} => vsel = <<>>
        /\ Composed => variant_constraints = <<>>
        /\ pc = "done" =>
              LET S == {A \in Assignments :
                           /\ AllHold(fm_constraints \o req_constraints, A)
                           /\ ClaimCost(A) <= ClaimBound}
              IN  /\ S = {} <=> result = None
                  /\ S # {} => (result.kind = "dict" /\ result.map \in S)

C8_Witness ==
    /\ Returned
    /\ variant_name = "V99"
    /\ {"CAN", "AES_128"} \subseteq fm.named
    /\ ~result.map["CAN"]
    /\ ~result.map["AES_128"]

\* C9: the call returns the infeasible signal exactly when no assignment
\* satisfies all the constraints, and otherwise a mapping of exactly the
\* declared feature names to booleans.
C9_TotalOrInfeasible ==
    pc = "done" =>
        /\ result = None <=>
              ~\E A \in Assignments :
                   AllHold(StructuralPresetPolicy, A) /\ ClaimCost(A) <= ClaimBound
        /\ result # None =>
              /\ result.kind = "dict"
              /\ DOMAIN result.map = fm.named
              /\ \A n \in fm.named : result.map[n] \in BOOLEAN

\* CAN is declared and no constraint of the call mentions it
C9_Witness ==
    /\ Returned
    /\ variant_name = "V3"
    /\ "CAN" \in fm.named
    /\ result.map["CAN"]

RemoveAt(s, i) == [j \in 1..(Len(s) - 1) |-> IF j < i THEN s[j] ELSE s[j + 1]]

SameAsCompiled(doc) ==
    /\ feature_vars = FeatureVars(doc)
    /\ fm_constraints = FmConstraints(doc)

\* C10: a requires or excludes declaration that names an undeclared feature
\* emits nothing: the feature variables and the constraints are those of the
\* model without the declaration.
C10_UnknownEdgeSkipped ==
    Compiled =>
        /\ \A i \in 1..Len(fm.requires) : ~BothDeclared(fm.requires[i]) =>
              SameAsCompiled(Doc(fm.named, fm.alts, RemoveAt(fm.requires, i), fm.excludes))
        /\ \A i \in 1..Len(fm.excludes) : ~BothDeclared(fm.excludes[i]) =>
              SameAsCompiled(Doc(fm.named, fm.alts, fm.requires, RemoveAt(fm.excludes, i)))

C10_Witness ==
    /\ Returned
    /\ \E i \in 1..Len(fm.requires) : ~BothDeclared(fm.requires[i])
    /\ \E i \in 1..Len(fm.excludes) :
          ~BothDeclared(fm.excludes[i]) /\ fm.excludes[i][1] \in fm.named

====
